---- MODULE Spec2Model ----
(***************************************************************************)
(* State-machine model of the two views of camidevai/SustentaM:            *)
(*   - LoginForm      (components/auth login form)                         *)
(*   - SeatIconDemo   (src/components/demo/SeatIconDemo.tsx)                *)
(* Strings typed by the user are sequences of one-character strings so     *)
(* that the RUT validator can inspect them; messages are plain strings.    *)
(***************************************************************************)
EXTENDS Integers, Sequences, FiniteSets, TLC

VARIABLES showPassword, authError, loading, showForgotTooltip,
          errors, inflight, timers, submitLog, loginLog, lastEvent,
          selectedSeat, lastClicked

loginVars == <<showPassword, authError, loading, showForgotTooltip,
               errors, inflight, timers, submitLog, loginLog, lastEvent>>
seatVars == <<selectedSeat, lastClicked>>
vars == <<showPassword, authError, loading, showForgotTooltip,
          errors, inflight, timers, submitLog, loginLog, lastEvent,
          selectedSeat, lastClicked>>

(***************************************************************************)
(* Bounds of the exploration.                                              *)
(***************************************************************************)
MaxSubmits == 2
MaxTimers == 2

(***************************************************************************)
(* Inputs the user can type.                                               *)
(***************************************************************************)
VACIO == <<>>
RUT_VALIDO == <<"1","2","3","4","5","6","7","8","-","5">>
RUT_PUNTOS == <<"1","1",".","1","1","1",".","1","1","1","-","1">>
RUT_DV_MALO == <<"1","2","3","4","5","6","7","8","-","9">>
RUT_TEXTO == <<"a","b","c">>
Usuarios == {VACIO, RUT_VALIDO, RUT_PUNTOS, RUT_DV_MALO, RUT_TEXTO}
CLAVE_DEMO == <<"u","s","e","r","1","2","3">>
Claves == {VACIO, CLAVE_DEMO}
FormData == [usuario : Usuarios, clave : Claves]

(***************************************************************************)
(* validarRUT (lib/validations): format and check-digit verification.      *)
(***************************************************************************)
DigitSeq == <<"0","1","2","3","4","5","6","7","8","9">>
Digits == {DigitSeq[i] : i \in 1..10}
DigitVal(c) == (CHOOSE i \in 1..10 : DigitSeq[i] = c) - 1

EsSeparador(c) == c \in {".", "-"}
NoEsSeparador(c) == ~EsSeparador(c)
limpiarRUT(rut) == SelectSeq(rut, NoEsSeparador)

RECURSIVE SumaRUT(_, _)
SumaRUT(cuerpo, k) ==
  IF cuerpo = <<>> THEN 0
  ELSE DigitVal(cuerpo[Len(cuerpo)]) * (2 + (k % 6))
       + SumaRUT(SubSeq(cuerpo, 1, Len(cuerpo) - 1), k + 1)

dvEsperado(cuerpo) ==
  LET r == 11 - (SumaRUT(cuerpo, 0) % 11)
  IN  IF r = 11 THEN "0" ELSE IF r = 10 THEN "K" ELSE DigitSeq[r + 1]

validarRUT(rut) ==
  LET l == limpiarRUT(rut)
      cuerpo == SubSeq(l, 1, Len(l) - 1)
      dv == IF l[Len(l)] = "k" THEN "K" ELSE l[Len(l)]
  IN  IF Len(l) < 2 THEN [valido |-> FALSE, mensaje |-> "Formato de RUT inválido"]
      ELSE IF (\E i \in 1..Len(cuerpo) : cuerpo[i] \notin Digits)
              \/ dv \notin (Digits \cup {"K"})
        THEN [valido |-> FALSE, mensaje |-> "Formato de RUT inválido"]
      ELSE IF dv # dvEsperado(cuerpo)
        THEN [valido |-> FALSE, mensaje |-> "Dígito verificador incorrecto"]
      ELSE [valido |-> TRUE, mensaje |-> "RUT válido"]

(***************************************************************************)
(* Layer 1: loginSchema through zodResolver; "" is "no error on the field".*)
(***************************************************************************)
NoErrors == [usuario |-> "", clave |-> ""]

loginSchema_ClaveOptional(data) ==
  [usuario |-> IF Len(data.usuario) < 1 THEN "Usuario requerido" ELSE "",
   clave   |-> ""]

loginSchema(data) ==
  [usuario |-> IF Len(data.usuario) < 1 THEN "Usuario requerido" ELSE "",
   clave   |-> IF Len(data.clave) < 1 THEN "Clave requerida" ELSE ""]

(***************************************************************************)
(* The submit Button: the props LoginForm passes, and what Button does     *)
(* with them (ui/Button: a loading button is disabled).                    *)
(***************************************************************************)
submitButtonProps_NoLoading == [type |-> "submit", loading |-> FALSE]

submitButtonProps == [type |-> "submit", loading |-> loading]

ButtonDisabled(props) == props.loading

(***************************************************************************)
(* Initial state: the useState defaults and an empty form state.           *)
(***************************************************************************)
NULL == 0

Init ==
  /\ showPassword = FALSE
  /\ authError = ""
  /\ loading = FALSE
  /\ showForgotTooltip = FALSE
  /\ errors = NoErrors
  /\ inflight = <<>>
  /\ timers = 0
  /\ submitLog = <<>>
  /\ loginLog = <<>>
  /\ lastEvent = "mount"
  /\ selectedSeat = NULL
  /\ lastClicked = [group |-> "none", number |-> 0]

(***************************************************************************)
(* LoginForm.onSubmit up to its await: the banner and loading updates, the *)
(* RUT pre-validation and the call of login.  A call that returns a        *)
(* promise is appended to inflight; a call that throws synchronously is    *)
(* caught at once (catch, finally).                                        *)
(***************************************************************************)
onSubmit_NoRutCheck(data) ==
  /\ loginLog' = Append(loginLog, <<data.usuario, data.clave>>)
  /\ \/ /\ authError' = ""
        /\ loading' = TRUE
        /\ inflight' = Append(inflight, data)
        /\ lastEvent' = "submit"
     \/ /\ authError' = "Error al iniciar sesión"
        /\ loading' = FALSE
        /\ inflight' = inflight
        /\ lastEvent' = "loginThrew"

onSubmit_NoClear(data) ==
  LET r == validarRUT(data.usuario)
  IN  IF ~r.valido
        THEN /\ authError' = "RUT inválido: " \o r.mensaje
             /\ loading' = FALSE
             /\ lastEvent' = "submit"
             /\ UNCHANGED <<inflight, loginLog>>
        ELSE /\ loginLog' = Append(loginLog, <<data.usuario, data.clave>>)
             /\ \/ /\ authError' = authError
                   /\ loading' = TRUE
                   /\ inflight' = Append(inflight, data)
                   /\ lastEvent' = "submit"
                \/ /\ authError' = "Error al iniciar sesión"
                   /\ loading' = FALSE
                   /\ inflight' = inflight
                   /\ lastEvent' = "loginThrew"

onSubmit_CleanedUsuario(data) ==
  LET r == validarRUT(data.usuario)
  IN  IF ~r.valido
        THEN /\ authError' = "RUT inválido: " \o r.mensaje
             /\ loading' = FALSE
             /\ lastEvent' = "submit"
             /\ UNCHANGED <<inflight, loginLog>>
        ELSE /\ loginLog' = Append(loginLog, <<limpiarRUT(data.usuario), data.clave>>)
             /\ \/ /\ authError' = ""
                   /\ loading' = TRUE
                   /\ inflight' = Append(inflight, data)
                   /\ lastEvent' = "submit"
                \/ /\ authError' = "Error al iniciar sesión"
                   /\ loading' = FALSE
                   /\ inflight' = inflight
                   /\ lastEvent' = "loginThrew"

onSubmit(data) ==
  LET r == validarRUT(data.usuario)
  IN  IF ~r.valido
        THEN /\ authError' = "RUT inválido: " \o r.mensaje
             /\ loading' = FALSE
             /\ lastEvent' = "submit"
             /\ UNCHANGED <<inflight, loginLog>>
        ELSE /\ loginLog' = Append(loginLog, <<data.usuario, data.clave>>)
             /\ \/ /\ authError' = ""
                   /\ loading' = TRUE
                   /\ inflight' = Append(inflight, data)
                   /\ lastEvent' = "submit"
                \/ /\ authError' = "Error al iniciar sesión"
                   /\ loading' = FALSE
                   /\ inflight' = inflight
                   /\ lastEvent' = "loginThrew"

(***************************************************************************)
(* LoginForm.onSubmit after its await: the three ways the call settles.    *)
(***************************************************************************)
Outcomes == {"true", "false", "reject"}

onSubmitResume_NoFinally(outcome) ==
  /\ authError' = CASE outcome = "true"   -> authError
                    [] outcome = "false"  -> "Usuario o clave incorrectos"
                    [] outcome = "reject" -> "Error al iniciar sesión"
  /\ loading' = IF outcome = "reject" THEN loading ELSE FALSE
  /\ lastEvent' = CASE outcome = "true"   -> "loginResolvedTrue"
                    [] outcome = "false"  -> "loginResolvedFalse"
                    [] outcome = "reject" -> "loginRejected"

onSubmitResume(outcome) ==
  /\ authError' = CASE outcome = "true"   -> authError
                    [] outcome = "false"  -> "Usuario o clave incorrectos"
                    [] outcome = "reject" -> "Error al iniciar sesión"
  /\ loading' = FALSE
  /\ lastEvent' = CASE outcome = "true"   -> "loginResolvedTrue"
                    [] outcome = "false"  -> "loginResolvedFalse"
                    [] outcome = "reject" -> "loginRejected"

(***************************************************************************)
(* handleSubmit(onSubmit): the resolver runs first; onSubmit runs only     *)
(* when the schema reports no error.                                       *)
(***************************************************************************)
handleSubmit(data) ==
  LET errs == loginSchema(data)
  IN  IF errs # NoErrors
        THEN /\ errors' = errs
             /\ lastEvent' = "submit"
             /\ UNCHANGED <<authError, loading, inflight, loginLog>>
        ELSE /\ errors' = NoErrors
             /\ onSubmit(data)

(***************************************************************************)
(* Events of the login form.                                               *)
(***************************************************************************)
FormSubmit ==
  /\ ~ButtonDisabled(submitButtonProps)
  /\ Len(submitLog) < MaxSubmits
  /\ \E data \in FormData :
        /\ submitLog' = Append(submitLog, data)
        /\ handleSubmit(data)
  /\ UNCHANGED <<showPassword, showForgotTooltip, timers>>
  /\ UNCHANGED seatVars

LoginSettles ==
  /\ \E i \in 1..Len(inflight), outcome \in Outcomes :
        /\ inflight' = SubSeq(inflight, 1, i - 1) \o SubSeq(inflight, i + 1, Len(inflight))
        /\ onSubmitResume(outcome)
  /\ UNCHANGED <<showPassword, showForgotTooltip, errors, timers, submitLog, loginLog>>
  /\ UNCHANGED seatVars

TogglePassword ==
  /\ showPassword' = ~showPassword
  /\ lastEvent' = "togglePassword"
  /\ UNCHANGED <<authError, loading, showForgotTooltip, errors, inflight,
                 timers, submitLog, loginLog>>
  /\ UNCHANGED seatVars

ForgotMouseEnter ==
  /\ showForgotTooltip' = TRUE
  /\ lastEvent' = "mouseEnter"
  /\ UNCHANGED <<showPassword, authError, loading, errors, inflight,
                 timers, submitLog, loginLog>>
  /\ UNCHANGED seatVars

ForgotMouseLeave ==
  /\ showForgotTooltip' = FALSE
  /\ lastEvent' = "mouseLeave"
  /\ UNCHANGED <<showPassword, authError, loading, errors, inflight,
                 timers, submitLog, loginLog>>
  /\ UNCHANGED seatVars

ForgotClick_NoTimeout ==
  /\ timers < MaxTimers
  /\ showForgotTooltip' = TRUE
  /\ timers' = timers
  /\ lastEvent' = "forgotClick"
  /\ UNCHANGED <<showPassword, authError, loading, errors, inflight,
                 submitLog, loginLog>>
  /\ UNCHANGED seatVars

ForgotClick ==
  /\ timers < MaxTimers
  /\ showForgotTooltip' = TRUE
  /\ timers' = timers + 1
  /\ lastEvent' = "forgotClick"
  /\ UNCHANGED <<showPassword, authError, loading, errors, inflight,
                 submitLog, loginLog>>
  /\ UNCHANGED seatVars

ForgotTimeout ==
  /\ timers > 0
  /\ timers' = timers - 1
  /\ showForgotTooltip' = FALSE
  /\ lastEvent' = "timeout"
  /\ UNCHANGED <<showPassword, authError, loading, errors, inflight,
                 submitLog, loginLog>>
  /\ UNCHANGED seatVars

(***************************************************************************)
(* SeatIconDemo: the seats it renders.  A seat is the props given to       *)
(* SeatIcon; onClick is either undefined or the closure                    *)
(* () => handleSeatClick(arg), kept as the number it captures.             *)
(***************************************************************************)
NoHandler == [defined |-> FALSE, arg |-> 0]
Handler(n) == [defined |-> TRUE, arg |-> n]

GaleriaSeats ==
  << [number |-> 1,  status |-> "available", onClick |-> NoHandler],
     [number |-> 2,  status |-> "occupied",  onClick |-> NoHandler],
     [number |-> 30, status |-> "total",     onClick |-> NoHandler],
     [number |-> 5,  status |-> "available", onClick |-> NoHandler],
     [number |-> 15, status |-> "available", onClick |-> NoHandler],
     [number |-> 25, status |-> "available", onClick |-> NoHandler],
     [number |-> 1,  status |-> "available", onClick |-> NoHandler],
     [number |-> 2,  status |-> "occupied",  onClick |-> NoHandler],
     [number |-> 3,  status |-> "total",     onClick |-> NoHandler],
     [number |-> 0,  status |-> "available", onClick |-> NoHandler],
     [number |-> 0,  status |-> "occupied",  onClick |-> NoHandler],
     [number |-> 0,  status |-> "total",     onClick |-> NoHandler] >>

InteractivaNums == <<10, 11, 12, 13, 14>>
InteractivaSeat(num) ==
  [number |-> num, status |-> "available", onClick |-> Handler(num)]

AulaRows == 5
AulaCols == 6
AulaOcupadas == 18

AulaSeat_StrictThreshold(row, seat) ==
  LET seatNumber == row * AulaCols + seat + 1
      isOccupied == seatNumber < AulaOcupadas
  IN  [number  |-> seatNumber,
       status  |-> IF isOccupied THEN "occupied" ELSE "available",
       onClick |-> IF ~isOccupied THEN Handler(seatNumber) ELSE NoHandler]

AulaSeat(row, seat) ==
  LET seatNumber == row * AulaCols + seat + 1
      isOccupied == seatNumber <= AulaOcupadas
  IN  [number  |-> seatNumber,
       status  |-> IF isOccupied THEN "occupied" ELSE "available",
       onClick |-> IF ~isOccupied THEN Handler(seatNumber) ELSE NoHandler]

OnlineRows == 10
OnlineCols == 20
OnlineOcupadas == 150

OnlineSeat_AlwaysHandler(row, seat) ==
  LET seatNumber == row * OnlineCols + seat + 1
      isOccupied == seatNumber <= OnlineOcupadas
  IN  [number  |-> seatNumber,
       status  |-> IF isOccupied THEN "occupied" ELSE "available",
       onClick |-> Handler(seatNumber)]

OnlineSeat(row, seat) ==
  LET seatNumber == row * OnlineCols + seat + 1
      isOccupied == seatNumber <= OnlineOcupadas
  IN  [number  |-> seatNumber,
       status  |-> IF isOccupied THEN "occupied" ELSE "available",
       onClick |-> IF ~isOccupied THEN Handler(seatNumber) ELSE NoHandler]

(***************************************************************************)
(* handleSeatClick, and a click on a rendered SeatIcon (ui/SeatIcon: the   *)
(* click calls onClick when one was given).                                *)
(***************************************************************************)
handleSeatClick(seatNumber) == selectedSeat' = seatNumber

SeatIconClick(group, seat) ==
  /\ IF seat.onClick.defined
       THEN handleSeatClick(seat.onClick.arg)
       ELSE selectedSeat' = selectedSeat
  /\ lastClicked' = [group |-> group, number |-> seat.number]
  /\ UNCHANGED loginVars

ClickGaleria ==
  \E i \in 1..Len(GaleriaSeats) : SeatIconClick("galeria", GaleriaSeats[i])

ClickInteractiva ==
  \E i \in 1..Len(InteractivaNums) :
     SeatIconClick("interactiva", InteractivaSeat(InteractivaNums[i]))

ClickAula ==
  \E row \in 0..(AulaRows - 1), seat \in 0..(AulaCols - 1) :
     SeatIconClick("aula", AulaSeat(row, seat))

ClickOnline ==
  \E row \in 0..(OnlineRows - 1), seat \in 0..(OnlineCols - 1) :
     SeatIconClick("online", OnlineSeat(row, seat))

NextSeat ==
  \/ ClickGaleria
  \/ ClickInteractiva
  \/ ClickAula
  \/ ClickOnline

SpecSeat == Init /\ [][NextSeat]_vars

Next ==
  \/ FormSubmit
  \/ LoginSettles
  \/ TogglePassword
  \/ ForgotMouseEnter
  \/ ForgotMouseLeave
  \/ ForgotClick
  \/ ForgotTimeout

Spec == Init /\ [][Next]_vars

(***************************************************************************)
(* Properties.                                                             *)
(***************************************************************************)
IsSubmitStep == Len(submitLog') = Len(submitLog) + 1
Submitted == submitLog'[Len(submitLog')]
LastSubmit == submitLog[Len(submitLog)]
NonEmptyFields(d) == Len(d.usuario) > 0 /\ Len(d.clave) > 0
PassedBothLayers(d) == NonEmptyFields(d) /\ validarRUT(d.usuario).valido

\* C1: a submission with two non-empty fields and an invalid RUT never calls
\* login, sets the banner to 'RUT inválido: ' followed by the validator's
\* message, and returns with loading = false.
C1_InvalidRutBlocked ==
  [][ (IsSubmitStep /\ NonEmptyFields(Submitted)
         /\ ~validarRUT(Submitted.usuario).valido)
      => /\ loginLog' = loginLog
         /\ inflight' = inflight
         /\ authError' = "RUT inválido: " \o validarRUT(Submitted.usuario).mensaje
         /\ loading' = FALSE ]_vars

C1_Witness ==
  /\ lastEvent = "submit"
  /\ Len(submitLog) = 2
  /\ LastSubmit = [usuario |-> RUT_DV_MALO, clave |-> CLAVE_DEMO]
  /\ authError = "RUT inválido: Dígito verificador incorrecto"
  /\ Len(loginLog) = 1

\* C2: a submission with an empty username or password is stopped by the
\* schema: onSubmit does not run (banner and loading untouched), each empty
\* field gets its message, and login is not called.
C2_EmptyFieldBlocked ==
  [][ (IsSubmitStep /\ ~NonEmptyFields(Submitted))
      => /\ loginLog' = loginLog
         /\ inflight' = inflight
         /\ authError' = authError
         /\ loading' = loading
         /\ (Len(Submitted.usuario) = 0 => errors'.usuario = "Usuario requerido")
         /\ (Len(Submitted.clave) = 0 => errors'.clave = "Clave requerida") ]_vars

C2_Witness ==
  /\ lastEvent = "submit"
  /\ Len(submitLog) = 2
  /\ LastSubmit = [usuario |-> RUT_VALIDO, clave |-> VACIO]
  /\ errors = [usuario |-> "", clave |-> "Clave requerida"]
  /\ authError = "Usuario o clave incorrectos"
  /\ Len(loginLog) = 1

\* C3 (as stated): every submission whose username is a valid RUT, whatever
\* the password, calls login once with the two raw values.
C3_AnyPasswordCallsLogin ==
  [][ (IsSubmitStep /\ validarRUT(Submitted.usuario).valido)
      => loginLog' = Append(loginLog, <<Submitted.usuario, Submitted.clave>>) ]_vars

\* C3 (amended): the login calls are exactly the submissions with a valid RUT
\* and a non-empty password, one call each, in order, with the raw values.
C3_LoginOncePerPassedSubmit ==
  LET passed == SelectSeq(submitLog, PassedBothLayers)
  IN  loginLog = [i \in 1..Len(passed) |-> <<passed[i].usuario, passed[i].clave>>]

C3_Witness ==
  /\ Len(submitLog) = 2
  /\ loginLog = << <<RUT_PUNTOS, CLAVE_DEMO>>, <<RUT_VALIDO, CLAVE_DEMO>> >>

\* C4: when a submission that reached login settles, the banner depends on
\* the outcome only: empty after true, 'Usuario o clave incorrectos' after
\* false, 'Error al iniciar sesión' after a throw or a rejection.
C4_BannerByOutcome ==
  /\ (lastEvent = "loginResolvedTrue" => authError = "")
  /\ (lastEvent = "loginResolvedFalse" => authError = "Usuario o clave incorrectos")
  /\ (lastEvent \in {"loginRejected", "loginThrew"}
        => authError = "Error al iniciar sesión")

C4_Witness ==
  /\ lastEvent = "loginResolvedTrue"
  /\ Len(submitLog) = 2
  /\ submitLog[1] = [usuario |-> RUT_TEXTO, clave |-> CLAVE_DEMO]
  /\ authError = ""

\* C5: while a login call is pending the form is loading and the submit
\* control is disabled; two login calls are never in flight at once.
C5_SingleInflight ==
  /\ Len(inflight) <= 1
  /\ (inflight # <<>> => loading /\ ButtonDisabled(submitButtonProps))

C5_Witness ==
  /\ Len(inflight) = 1
  /\ loading
  /\ Len(submitLog) < MaxSubmits

\* C7: loading turns true only in a submit step, is true exactly while a
\* login call is awaited, and is false after each of the four ways a
\* submission ends.
C7_LoadingCycle ==
  /\ [](loading <=> inflight # <<>>)
  /\ [](lastEvent \in {"loginResolvedTrue", "loginResolvedFalse",
                       "loginRejected", "loginThrew"} => ~loading)
  /\ [][ (~loading /\ loading') => IsSubmitStep ]_vars
  /\ [][ (IsSubmitStep /\ inflight' = inflight) => ~loading' ]_vars

C7_Witness ==
  /\ lastEvent = "loginRejected"
  /\ ~loading
  /\ inflight = <<>>

\* C8: while the login call has not settled, every event leaves the form
\* submitting: loading stays true and the banner stays empty.
C8_HangingCallBlocks ==
  /\ [](loading => authError = "")
  /\ [][ (loading /\ Len(inflight') >= Len(inflight))
         => (loading' /\ authError' = "" /\ submitLog' = submitLog) ]_vars

C8_Witness ==
  /\ loading
  /\ Len(inflight) = 1
  /\ lastEvent = "mouseLeave"
  /\ showPassword
  /\ Len(submitLog) < MaxSubmits

\* C10: a click on the forgot-password control shows the tooltip and
\* schedules one dismiss, mouse-enter shows it, mouse-leave hides it, the
\* tooltip is hidden once the last scheduled dismiss has fired, and none of
\* these events touches loading, authError or showPassword.
C10_ForgotTooltip ==
  /\ []((lastEvent = "timeout" /\ timers = 0) => ~showForgotTooltip)
  /\ [][ /\ (lastEvent' = "forgotClick"
               => showForgotTooltip' /\ timers' = timers + 1)
         /\ (lastEvent' = "mouseEnter"
               => showForgotTooltip' /\ timers' = timers)
         /\ (lastEvent' = "mouseLeave"
               => ~showForgotTooltip' /\ timers' = timers)
         /\ (lastEvent' = "timeout"
               => ~showForgotTooltip' /\ timers' = timers - 1)
         /\ (lastEvent' \in {"forgotClick", "mouseEnter", "mouseLeave", "timeout"}
               => UNCHANGED <<loading, authError, showPassword>>) ]_vars

C10_Witness ==
  /\ lastEvent = "timeout"
  /\ timers = 0
  /\ ~showForgotTooltip
  /\ loading

\* C6: the classroom grid numbers its 5 x 6 seats 1..30 without duplicates;
\* seats 1..18 are occupied and have no click handler, seats 19..30 are
\* available and a click on one selects its own number.
C6_ClassroomGrid ==
  LET pos == (0..4) \X (0..5)
  IN  /\ AulaRows = 5 /\ AulaCols = 6
      /\ {AulaSeat(p[1], p[2]).number : p \in pos} = 1..30
      /\ \A p, q \in pos :
            AulaSeat(p[1], p[2]).number = AulaSeat(q[1], q[2]).number => p = q
      /\ \A p \in pos :
            LET x == AulaSeat(p[1], p[2])
            IN  /\ (x.number \in 1..18
                      => x.status = "occupied" /\ ~x.onClick.defined)
                /\ (x.number \in 19..30
                      => x.status = "available" /\ x.onClick = Handler(x.number))
      /\ (lastClicked.group = "aula" /\ lastClicked.number \in 19..30
            => selectedSeat = lastClicked.number)

C6_Witness ==
  /\ lastClicked = [group |-> "aula", number |-> 19]
  /\ selectedSeat = 19

\* C9: selectedSeat is null only before the first effective click, otherwise
\* the number of the last clicked seat that has a handler, so it lies in
\* 10..14, 19..30 or 151..200; a click on an occupied seat leaves it
\* unchanged, and it never returns to null.
ClaimedClickable(c) ==
  \/ c.group = "interactiva" /\ c.number \in 10..14
  \/ c.group = "aula" /\ c.number \in 19..30
  \/ c.group = "online" /\ c.number \in 151..200

C9_SelectedSeat ==
  /\ [](selectedSeat \in ({NULL} \cup (10..14) \cup (19..30) \cup (151..200)))
  /\ [](ClaimedClickable(lastClicked) => selectedSeat = lastClicked.number)
  /\ [][ ~ClaimedClickable(lastClicked') => selectedSeat' = selectedSeat ]_vars
  /\ [][ selectedSeat # NULL => selectedSeat' # NULL ]_vars

C9_Witness ==
  /\ selectedSeat = 151
  /\ lastClicked = [group |-> "online", number |-> 150]

====
